---- MODULE Spec2Model ----
(***************************************************************************)
(* Multi-headed attention of labml_nn/transformers/mha.py:                 *)
(* PrepareForMultiHeadAttention and MultiHeadAttention.                    *)
(*                                                                         *)
(* Tensors are nested sequences (x[pos][b][d]); a shape is read off the    *)
(* nesting.  Real numbers are modelled in two ways:                        *)
(*  - inputs, weights and projections are integers;                        *)
(*  - scores are fixed-point integers in units of 1/FixOne;                *)
(*  - attention weights, aggregated values and outputs are exact           *)
(*    rationals <<numerator, denominator>>.                                *)
(* exp() is a fixed-point table that underflows to 0, as floating point    *)
(* exp() does for very negative arguments.                                 *)
(***************************************************************************)
EXTENDS Integers, Sequences, FiniteSets, TLC

VARIABLES inst, raised, attn, pc, loc, rt

vars == <<inst, raised, attn, pc, loc, rt>>

\* Python's None (every tensor and every record differs from it)
None == <<>>

(***************************************************************************)
(* Bounds of the model                                                     *)
(***************************************************************************)
MaxSeq == 2
MaxBatch == 2
MaxDModel == 3
MaxHeads == 2
MaxSeed == 1

Seqs == 1..MaxSeq
Batches == 1..MaxBatch
DModels == 1..MaxDModel
HeadCounts == 1..MaxHeads
Seeds == 0..MaxSeed

\* dropout probabilities tried, as <<numerator, denominator>>:
\* disabled, and the constructor's default 0.1
DropoutProbs == {<<0, 1>>, <<1, 10>>}

(***************************************************************************)
(* Numbers                                                                 *)
(***************************************************************************)
\* resolution of fixed-point scores: 1/FixOne
FixOne == 2
\* precision with which sqrt(d_k) is taken: 1/SqrtPrec
SqrtPrec == 100
\* the value masked scores are filled with: -1e9
MaskFillValue == -1000000000

RECURSIVE GCD(_, _)
GCD(a, b) == IF b = 0 THEN a ELSE GCD(b, a % b)

Abs(a) == IF a < 0 THEN -a ELSE a

\* a rational in lowest terms with a positive denominator
RNorm(r) ==
    LET g == GCD(Abs(r[1]), Abs(r[2]))
        s == IF r[2] < 0 THEN -1 ELSE 1
    IN  <<s * (r[1] \div g), s * (r[2] \div g)>>

RAdd(r, q) ==
    LET g == GCD(r[2], q[2])
    IN  RNorm(<<r[1] * (q[2] \div g) + q[1] * (r[2] \div g), r[2] * (q[2] \div g)>>)

RMulInt(r, k) == RNorm(<<r[1] * k, r[2]>>)

RECURSIVE SumSeq(_)
SumSeq(s) == IF Len(s) = 0 THEN 0 ELSE Head(s) + SumSeq(Tail(s))

RECURSIVE RSumSeq(_)
RSumSeq(s) == IF Len(s) = 0 THEN <<0, 1>> ELSE RAdd(Head(s), RSumSeq(Tail(s)))

RECURSIVE MaxSeqOf(_)
MaxSeqOf(s) ==
    IF Len(s) = 1 THEN s[1]
    ELSE LET m == MaxSeqOf(Tail(s)) IN IF s[1] > m THEN s[1] ELSE m

\* math.sqrt(n), to 1/SqrtPrec: the largest r with (r/SqrtPrec)^2 <= n
ISqrt(n) ==
    CHOOSE r \in 0..(SqrtPrec * n) :
        r * r <= n * SqrtPrec * SqrtPrec /\ (r + 1) * (r + 1) > n * SqrtPrec * SqrtPrec

\* exp(-k / FixOne) in units of 1/1000, for k = 0, 1, 2, ...
ExpTable == <<1000, 607, 368, 223, 135, 82, 50, 30, 18, 11, 7, 4, 2, 2, 1, 1>>

\* exp(-k / FixOne) for k >= 0; underflows to 0
ExpNeg(k) == IF k < Len(ExpTable) THEN ExpTable[k + 1] ELSE 0

(***************************************************************************)
(* Shapes and broadcasting                                                 *)
(***************************************************************************)
Shape3(x) == <<Len(x), Len(x[1]), Len(x[1][1])>>
Shape4(x) == <<Len(x), Len(x[1]), Len(x[1][1]), Len(x[1][1][1])>>

\* two sizes are broadcastable when they match or one of them is 1
Broadcastable(m, n) == m = n \/ m = 1 \/ n = 1
BroadcastDim(m, n) == IF m = 1 THEN n ELSE m
\* the index into an operand of size m for position p of the broadcast result
BIdx(m, p) == IF m = 1 THEN 1 ELSE p

\* row-major element order of a tensor
Flat3(x) ==
    LET s == Shape3(x)
    IN  [n \in 1..(s[1] * s[2] * s[3]) |->
            x[((n - 1) \div (s[2] * s[3])) + 1]
             [(((n - 1) \div s[3]) % s[2]) + 1]
             [((n - 1) % s[3]) + 1]]

Flat4(x) ==
    LET s == Shape4(x)
    IN  [n \in 1..(s[1] * s[2] * s[3] * s[4]) |->
            x[((n - 1) \div (s[2] * s[3] * s[4])) + 1]
             [(((n - 1) \div (s[3] * s[4])) % s[2]) + 1]
             [(((n - 1) \div s[4]) % s[3]) + 1]
             [((n - 1) % s[4]) + 1]]

\* the elements `flat`, in the same order, seen with shape [L, B, W]
View3(flat, L, B, W) ==
    [pos \in 1..L |-> [b \in 1..B |-> [k \in 1..W |->
        flat[((pos - 1) * B + (b - 1)) * W + k]]]]

\* the elements `flat`, in the same order, seen with shape [L, B, H, D]
View4(flat, L, B, H, D) ==
    [pos \in 1..L |-> [b \in 1..B |-> [h \in 1..H |-> [d \in 1..D |->
        flat[(((pos - 1) * B + (b - 1)) * H + (h - 1)) * D + d]]]]]

(***************************************************************************)
(* nn.Linear: the linear-transform operator                                *)
(***************************************************************************)
\* the learned parameters a layer starts with: a 0/1 band matrix and a 0/1
\* bias vector (any fixed values do; no operation changes them)
InitWeight(in_features, out_features, band) ==
    [o \in 1..out_features |-> [i \in 1..in_features |->
        IF i = o \/ (band /\ i = o + 1) THEN 1 ELSE 0]]

InitBias(out_features) == [o \in 1..out_features |-> o % 2]

\* nn.Linear(in_features, out_features, bias=bias)
NewLinear(in_features, out_features, bias, band) ==
    [in_features |-> in_features,
     out_features |-> out_features,
     weight |-> InitWeight(in_features, out_features, band),
     bias |-> IF bias THEN InitBias(out_features) ELSE None]

\* the layer accepts inputs whose last dimension is in_features
LinearAccepts(lin, x) == Len(x[1][1]) = lin.in_features

BiasAt(lin, o) == IF lin.bias = None THEN 0 ELSE lin.bias[o]

\* y = x W^T + b on an integer tensor [L, B, in_features]
Linear(lin, x) ==
    [pos \in 1..Len(x) |-> [b \in 1..Len(x[1]) |-> [o \in 1..lin.out_features |->
        SumSeq([i \in 1..lin.in_features |-> lin.weight[o][i] * x[pos][b][i]])
            + BiasAt(lin, o)]]]

\* y = x W^T + b on a tensor of rationals [L, B, in_features]
LinearQ(lin, x) ==
    [pos \in 1..Len(x) |-> [b \in 1..Len(x[1]) |-> [o \in 1..lin.out_features |->
        RAdd(RSumSeq([i \in 1..lin.in_features |->
                        RMulInt(x[pos][b][i], lin.weight[o][i])]),
             <<BiasAt(lin, o), 1>>)]]]

(***************************************************************************)
(* PrepareForMultiHeadAttention                                            *)
(***************************************************************************)
\* __init__(d_model, heads, d_k, bias)
NewPrepare(d_model, heads, d_k, bias, band) ==
    [linear |-> NewLinear(d_model, heads * d_k, bias, band),
     heads |-> heads,
     d_k |-> d_k]

\* a split that lets the feature index vary slower than the head index
SplitHeadsFeatureMajor(x, seq_len, batch_size, heads, d_k) ==
    [pos \in 1..seq_len |-> [b \in 1..batch_size |-> [h \in 1..heads |->
        [d \in 1..d_k |-> x[pos][b][(d - 1) * heads + h]]]]]

\* x.view(seq_len, batch_size, heads, d_k): the same elements in the same
\* row-major order, the last dimension read as [heads, d_k]
SplitHeads(x, seq_len, batch_size, heads, d_k) ==
    View4(Flat3(x), seq_len, batch_size, heads, d_k)

\* __call__(x): linear transform, then split into heads
Prepare(prep, x) ==
    SplitHeads(Linear(prep.linear, x), Len(x), Len(x[1]), prep.heads, prep.d_k)

(***************************************************************************)
(* MultiHeadAttention.__init__                                             *)
(***************************************************************************)
\* self.d_k = d_model // heads
DK(heads, d_model) == d_model \div heads

\* 1 / math.sqrt(self.d_k) divides by zero when d_k = 0
ScaleRaises(heads, d_model) == DK(heads, d_model) = 0

\* self.scale = 1 / math.sqrt(self.d_k), as the rational SqrtPrec / ISqrt(d_k)
Scale(d_k) == <<SqrtPrec, ISqrt(d_k)>>

\* the instance __init__ builds when it raises nothing
NewInstance(heads, d_model, dropout_prob, bias) ==
    LET d_k == DK(heads, d_model)
    IN  [d_k |-> d_k,
         heads |-> heads,
         query |-> NewPrepare(d_model, heads, d_k, bias, FALSE),
         key |-> NewPrepare(d_model, heads, d_k, bias, FALSE),
         value |-> NewPrepare(d_model, heads, d_k, bias, TRUE),
         output |-> NewLinear(d_model, d_model, TRUE, TRUE),
         dropout |-> dropout_prob,
         scale |-> Scale(d_k)]

(***************************************************************************)
(* The steps of MultiHeadAttention.__call__ as functions                   *)
(***************************************************************************)
\* mask.unsqueeze(-1): a trailing dimension of size 1 for the heads
Unsqueeze(mask) ==
    [i \in 1..Len(mask) |-> [j \in 1..Len(mask[1]) |-> [b \in 1..Len(mask[1][1]) |->
        <<mask[i][j][b]>>]]]

\* the mask check at entry: the first dimension is 1 or equals the second
MaskAssert(mask) == Len(mask) = 1 \/ Len(mask) = Len(mask[1])

\* einsum('ibhd,jbhd->ijbh') needs the sizes under each repeated letter to
\* match or be 1; h and d are heads and d_k on both sides
ScoresDefined(query, key) == Broadcastable(Len(query[1]), Len(key[1]))

\* get_scores: S[i][j][b][h] = sum over d of Q[i][b][h][d] * K[j][b][h][d]
GetScores(query, key) ==
    LET qb == Len(query[1])
        kb == Len(key[1])
    IN  [i \in 1..Len(query) |-> [j \in 1..Len(key) |->
         [b \in 1..BroadcastDim(qb, kb) |-> [h \in 1..Len(query[1][1]) |->
            SumSeq([d \in 1..Len(query[1][1][1]) |->
                query[i][BIdx(qb, b)][h][d] * key[j][BIdx(kb, b)][h][d]])]]]]

\* n / d rounded to the nearest integer (d > 0)
RoundDiv(n, d) == (2 * n + d) \div (2 * d)

\* scores *= self.scale; the result is in fixed-point units of 1/FixOne
ScaleScores(scores, scale) ==
    [i \in 1..Len(scores) |-> [j \in 1..Len(scores[1]) |->
     [b \in 1..Len(scores[1][1]) |-> [h \in 1..Len(scores[1][1][1]) |->
        RoundDiv(scores[i][j][b][h] * FixOne * scale[1], scale[2])]]]]

\* a fill value that excludes nothing: masked scores are set to 0
MaskFillZero == 0 * FixOne

\* -1e9 in fixed-point units
MaskFill == MaskFillValue * FixOne

\* masked_fill broadcasts the mask and the scores against each other
MaskedFillDefined(scores, mask) ==
    LET s == Shape4(scores)
        m == Shape4(mask)
    IN  \A n \in 1..4 : Broadcastable(s[n], m[n])

\* scores.masked_fill(mask == 0, -1e9)
MaskedFill(scores, mask) ==
    LET s == Shape4(scores)
        m == Shape4(mask)
    IN  [i \in 1..BroadcastDim(s[1], m[1]) |-> [j \in 1..BroadcastDim(s[2], m[2]) |->
         [b \in 1..BroadcastDim(s[3], m[3]) |-> [h \in 1..BroadcastDim(s[4], m[4]) |->
            IF mask[BIdx(m[1], i)][BIdx(m[2], j)][BIdx(m[3], b)][BIdx(m[4], h)] = FALSE
            THEN MaskFill
            ELSE scores[BIdx(s[1], i)][BIdx(s[2], j)][BIdx(s[3], b)][BIdx(s[4], h)]]]]]

\* softmax along dim 0, the query positions
SoftmaxGroupDim0(scores, i, j, b, h) == [ii \in 1..Len(scores) |-> scores[ii][j][b][h]]

\* softmax along dim 2, the batch
SoftmaxGroupDim2(scores, i, j, b, h) ==
    [bb \in 1..Len(scores[1][1]) |-> scores[i][j][bb][h]]

\* the scores the softmax at (i, b, h) normalises over: those along dim 1
SoftmaxGroup(scores, i, j, b, h) == [jj \in 1..Len(scores[1]) |-> scores[i][jj][b][h]]

\* F.softmax(scores, dim=1): exp(s - max) / sum of exp(s - max) over the group
Softmax(scores) ==
    [i \in 1..Len(scores) |-> [j \in 1..Len(scores[1]) |->
     [b \in 1..Len(scores[1][1]) |-> [h \in 1..Len(scores[1][1][1]) |->
        LET g == SoftmaxGroup(scores, i, j, b, h)
            m == MaxSeqOf(g)
        IN  <<ExpNeg(m - scores[i][j][b][h]),
              SumSeq([n \in 1..Len(g) |-> ExpNeg(m - g[n])])>>]]]]

\* the draws of nn.Dropout that are followed: every element kept, or the
\* first element zeroed; with p = 0 every element is kept
AllKept(a) ==
    [i \in 1..Len(a) |-> [j \in 1..Len(a[1]) |->
     [b \in 1..Len(a[1][1]) |-> [h \in 1..Len(a[1][1][1]) |-> TRUE]]]]

DropoutDraws(a, p) ==
    IF p[1] = 0 THEN {AllKept(a)}
    ELSE {AllKept(a), [AllKept(a) EXCEPT ![1][1][1][1] = FALSE]}

\* self.dropout(attn): a kept element is scaled by 1 / (1 - p), the others are 0
Dropout(a, keep, p) ==
    [i \in 1..Len(a) |-> [j \in 1..Len(a[1]) |->
     [b \in 1..Len(a[1][1]) |-> [h \in 1..Len(a[1][1][1]) |->
        IF keep[i][j][b][h]
        THEN <<a[i][j][b][h][1] * p[2], a[i][j][b][h][2] * (p[2] - p[1])>>
        ELSE <<0, 1>>]]]]

\* einsum("ijbh,jbhd->ibhd"): j and b must match or be 1
AggregateDefined(a, value) ==
    /\ Broadcastable(Len(a[1]), Len(value))
    /\ Broadcastable(Len(a[1][1]), Len(value[1]))

\* x[i][b][h][d] = sum over j of attn[i][j][b][h] * V[j][b][h][d]
Aggregate(a, value) ==
    LET aj == Len(a[1])
        vj == Len(value)
        ab == Len(a[1][1])
        vb == Len(value[1])
    IN  [i \in 1..Len(a) |-> [b \in 1..BroadcastDim(ab, vb) |->
         [h \in 1..Len(value[1][1]) |-> [d \in 1..Len(value[1][1][1]) |->
            RSumSeq([j \in 1..BroadcastDim(aj, vj) |->
                RMulInt(a[i][BIdx(aj, j)][BIdx(ab, b)][h],
                        value[BIdx(vj, j)][BIdx(vb, b)][h][d])])]]]]

\* x.reshape(seq_len, batch_size, -1) needs the element count to be a
\* multiple of seq_len * batch_size
ConcatDefined(x, seq_len, batch_size) == Len(Flat4(x)) % (seq_len * batch_size) = 0

\* x.reshape(seq_len, batch_size, -1): the same elements in the same order
ConcatHeads(x, seq_len, batch_size) ==
    LET flat == Flat4(x)
    IN  View3(flat, seq_len, batch_size, Len(flat) \div (seq_len * batch_size))

(***************************************************************************)
(* Inputs of a forward computation                                         *)
(***************************************************************************)
\* a [L, B, D] tensor of 0/1 elements that vary with every index
InputTensor(seed, L, B, D) ==
    [pos \in 1..L |-> [b \in 1..B |-> [d \in 1..D |->
        (pos + b + d + seed) % 2]]]

\* a boolean [mq, mk, mb] mask: pattern -1 admits no key, 0 admits every key,
\* j0 >= 1 excludes key position j0 for every query
MaskTensor(pattern, mq, mk, mb) ==
    [i \in 1..mq |-> [j \in 1..mk |-> [b \in 1..mb |->
        IF pattern = -1 THEN FALSE ELSE IF pattern = 0 THEN TRUE ELSE j # pattern]]]

Arguments(query, key, value, mask) ==
    [query |-> query, key |-> key, value |-> value, mask |-> mask]

\* query [Lq, B, d_model], key and value [Lk, B, d_model], with no mask or
\* with a mask [mq, Lk, B] whose first dimension is any length
MatchingArgs(d_model) ==
    {Arguments(InputTensor(seed, Lq, B, d_model),
               InputTensor(seed + 1, Lk, B, d_model),
               InputTensor(seed + 2, Lk, B, d_model),
               mask) :
        seed \in Seeds, Lq \in Seqs, Lk \in Seqs, B \in Batches,
        mask \in {None}} \cup
    UNION {{Arguments(InputTensor(0, Lq, B, d_model),
                      InputTensor(1, Lk, B, d_model),
                      InputTensor(2, Lk, B, d_model),
                      MaskTensor(pattern, mq, Lk, B)) :
                pattern \in -1..Lk, mq \in Seqs} :
        Lq \in Seqs, Lk \in Seqs, B \in Batches}

\* no mask, and one dimension of one of key, value or query differs from the
\* others: the value's length, the key's or value's batch size, or a width
DeviatingArgs(d_model) ==
    UNION {
        {Arguments(InputTensor(0, Lq, B, d_model), InputTensor(1, Lk, B, d_model),
                   InputTensor(2, Lv, B, d_model), None) : Lv \in Seqs \ {Lk}}
        \cup
        {Arguments(InputTensor(0, Lq, B, d_model), InputTensor(1, Lk, Bk, d_model),
                   InputTensor(2, Lk, Bv, d_model), None) :
            Bk \in Batches, Bv \in Batches \ {B}}
        \cup
        {Arguments(InputTensor(0, Lq, B, d_model), InputTensor(1, Lk, Bk, d_model),
                   InputTensor(2, Lk, B, d_model), None) : Bk \in Batches \ {B}}
        \cup
        {Arguments(InputTensor(0, Lq, B, w[1]), InputTensor(1, Lk, B, w[2]),
                   InputTensor(2, Lk, B, w[3]), None) :
            w \in {<<d, d_model, d_model>> : d \in DModels \ {d_model}} \cup
                  {<<d_model, d, d_model>> : d \in DModels \ {d_model}} \cup
                  {<<d_model, d_model, d>> : d \in DModels \ {d_model}}} :
        Lq \in Seqs, Lk \in Seqs, B \in Batches}

(***************************************************************************)
(* State                                                                   *)
(*  inst    the MultiHeadAttention instance, None until constructed        *)
(*  raised  the exception the last constructor call raised                 *)
(*  attn    self.attn                                                      *)
(*  pc      where each caller is in __call__                               *)
(*  loc     each caller's arguments and local variables                    *)
(*  rt      the vector of the reshape round trip (SpecReshape only)        *)
(***************************************************************************)
NoLocals ==
    [args |-> None, seq_len |-> 0, batch_size |-> 0, mask |-> None,
     query |-> None, key |-> None, value |-> None, scores |-> None,
     attn |-> None, debug |-> None, x |-> None, result |-> None,
     error |-> "none"]

\* the d_model the instance was constructed with
DModelOf(i) == i.output.in_features

Fail(t, error, locals) ==
    /\ pc' = [pc EXCEPT ![t] = "failed"]
    /\ loc' = [loc EXCEPT ![t] = [locals EXCEPT !.error = error]]

Goto(t, label, locals) ==
    /\ pc' = [pc EXCEPT ![t] = label]
    /\ loc' = [loc EXCEPT ![t] = locals]

\* MultiHeadAttention(heads, d_model, dropout_prob, bias)
Construct(heads, d_model, dropout_prob, bias) ==
    /\ inst = None
    /\ IF ScaleRaises(heads, d_model)
       THEN /\ raised' = "ZeroDivisionError"
            /\ inst' = inst
       ELSE /\ raised' = "none"
            /\ inst' = NewInstance(heads, d_model, dropout_prob, bias)
    /\ UNCHANGED <<attn, pc, loc, rt>>

\* a caller enters __call__(query=, key=, value=, mask=)
Begin(t, args) ==
    /\ inst # None
    /\ pc[t] = "idle"
    /\ Goto(t, "entry", [NoLocals EXCEPT !.args = args])
    /\ UNCHANGED <<inst, raised, attn, rt>>

\* lines 126-135: unpack query.shape, check and unsqueeze the mask
Entry(t) ==
    /\ pc[t] = "entry"
    /\ LET l == loc[t]
           l1 == [l EXCEPT !.seq_len = Len(l.args.query),
                           !.batch_size = Len(l.args.query[1])]
       IN  IF l.args.mask = None
           THEN Goto(t, "project", l1)
           ELSE IF MaskAssert(l.args.mask)
                THEN Goto(t, "project", [l1 EXCEPT !.mask = Unsqueeze(l.args.mask)])
                ELSE Fail(t, "AssertionError", l1)
    /\ UNCHANGED <<inst, raised, attn, rt>>

\* lines 139-141: self.query(query), self.key(key), self.value(value)
Project(t) ==
    /\ pc[t] = "project"
    /\ LET l == loc[t]
           a == l.args
       IN  IF ~LinearAccepts(inst.query.linear, a.query)
           THEN Fail(t, "RuntimeError", l)
           ELSE IF ~LinearAccepts(inst.key.linear, a.key)
           THEN Fail(t, "RuntimeError", [l EXCEPT !.query = Prepare(inst.query, a.query)])
           ELSE IF ~LinearAccepts(inst.value.linear, a.value)
           THEN Fail(t, "RuntimeError", [l EXCEPT !.query = Prepare(inst.query, a.query),
                                                  !.key = Prepare(inst.key, a.key)])
           ELSE Goto(t, "attend", [l EXCEPT !.query = Prepare(inst.query, a.query),
                                            !.key = Prepare(inst.key, a.key),
                                            !.value = Prepare(inst.value, a.value)])
    /\ UNCHANGED <<inst, raised, attn, rt>>

\* lines 145-159: scores, scaling, mask, softmax, tracker.debug
Attend(t) ==
    /\ pc[t] = "attend"
    /\ IF ~ScoresDefined(loc[t].query, loc[t].key)
       THEN Fail(t, "RuntimeError", loc[t])
       ELSE \E scores \in {ScaleScores(GetScores(loc[t].query, loc[t].key), inst.scale)} :
            IF loc[t].mask # None /\ ~MaskedFillDefined(scores, loc[t].mask)
            THEN Fail(t, "RuntimeError", [loc[t] EXCEPT !.scores = scores])
            ELSE \E filled \in {IF loc[t].mask = None THEN scores
                                ELSE MaskedFill(scores, loc[t].mask)} :
                 \E a \in {Softmax(filled)} :
                    Goto(t, "aggregate",
                         [loc[t] EXCEPT !.scores = filled, !.attn = a, !.debug = a])
    /\ UNCHANGED <<inst, raised, attn, rt>>

\* the retained self.attn read back in place of the local attn
AttnOperandRetained(t, a) ==
    IF attn # None /\ Shape4(attn) = Shape4(a) THEN attn ELSE a

\* the attention weights line 166 multiplies the values by: the local attn
AttnOperand(t, a) == a

\* lines 162-166: dropout, then the weighted sum of the values
AggregateStep(t) ==
    /\ pc[t] = "aggregate"
    /\ \E keep \in DropoutDraws(loc[t].attn, inst.dropout) :
       \E a \in {Dropout(loc[t].attn, keep, inst.dropout)} :
       \E w \in {AttnOperand(t, a)} :
            IF ~AggregateDefined(w, loc[t].value)
            THEN Fail(t, "RuntimeError", [loc[t] EXCEPT !.attn = a])
            ELSE Goto(t, "store", [loc[t] EXCEPT !.attn = a,
                                                 !.x = Aggregate(w, loc[t].value)])
    /\ UNCHANGED <<inst, raised, attn, rt>>

\* retaining the weights as they were before dropout
RetainedBeforeDropout(l) == l.debug

\* the tensor line 169 retains: the local attn, after dropout
Retained(l) == l.attn

\* line 169: self.attn = attn.detach()
Store(t) ==
    /\ pc[t] = "store"
    /\ attn' = Retained(loc[t])
    /\ pc' = [pc EXCEPT ![t] = "output"]
    /\ UNCHANGED <<inst, raised, loc, rt>>

\* lines 172-175: concatenate the heads, apply the output layer, return
Output(t) ==
    /\ pc[t] = "output"
    /\ IF ~ConcatDefined(loc[t].x, loc[t].seq_len, loc[t].batch_size)
       THEN Fail(t, "RuntimeError", loc[t])
       ELSE \E x \in {ConcatHeads(loc[t].x, loc[t].seq_len, loc[t].batch_size)} :
            IF ~LinearAccepts(inst.output, x)
            THEN Fail(t, "RuntimeError", [loc[t] EXCEPT !.x = x])
            ELSE Goto(t, "done", [loc[t] EXCEPT !.x = x,
                                                !.result = LinearQ(inst.output, x)])
    /\ UNCHANGED <<inst, raised, attn, rt>>

\* the caller has the result or the exception and may call again
Return(t) ==
    /\ pc[t] \in {"done", "failed"}
    /\ Goto(t, "idle", NoLocals)
    /\ UNCHANGED <<inst, raised, attn, rt>>

Step(t) ==
    \/ Entry(t)
    \/ Project(t)
    \/ Attend(t)
    \/ AggregateStep(t)
    \/ Store(t)
    \/ Output(t)
    \/ Return(t)

(***************************************************************************)
(* Spec: one caller; construction with every configuration, then forward   *)
(* computations on the instance while it retains no attention weights      *)
(***************************************************************************)
SoleCaller == {1}

Init ==
    /\ inst = None
    /\ raised = "none"
    /\ attn = None
    /\ pc = [t \in SoleCaller |-> "idle"]
    /\ loc = [t \in SoleCaller |-> NoLocals]
    /\ rt = None

Create ==
    \E heads \in HeadCounts, d_model \in DModels, p \in DropoutProbs, bias \in BOOLEAN :
        Construct(heads, d_model, p, bias)

Forward(t) ==
    /\ inst # None
    /\ attn = None
    /\ pc[t] = "idle"
    /\ \E args \in MatchingArgs(DModelOf(inst)) \cup DeviatingArgs(DModelOf(inst)) :
        Begin(t, args)

Next ==
    \/ Create
    \/ \E t \in SoleCaller :
        \/ Forward(t)
        \/ Step(t)

Spec == Init /\ [][Next]_vars

(***************************************************************************)
(* Properties of one forward computation (checked under Spec)              *)
(***************************************************************************)
Finished(t) == pc[t] \in {"done", "failed"}

\* the call's arguments
QueryOf(t) == loc[t].args.query
KeyOf(t) == loc[t].args.key
ValueOf(t) == loc[t].args.value
MaskOf(t) == loc[t].args.mask

\* the mask's first dimension is 1 or seq_len_q
AdmissibleMask(t) == Len(MaskOf(t)) = 1 \/ Len(MaskOf(t)) = Len(QueryOf(t))

\* the forward failed at the entry check and had computed nothing
FailedAtEntry(t) ==
    /\ pc[t] = "failed"
    /\ loc[t].error = "AssertionError"
    /\ loc[t].query = None /\ loc[t].key = None /\ loc[t].value = None
    /\ loc[t].scores = None /\ loc[t].debug = None

\* the instance was built with heads dividing d_model
WellConfigured == inst # None /\ inst.heads * inst.d_k = DModelOf(inst)

\* the argument shapes satisfy the shape invariants: query [Lq, B, d_model],
\* key and value [Lk, B, d_model], mask absent or [1 or Lq, Lk, B]
ConsistentShapes(t) ==
    /\ Len(QueryOf(t)[1][1]) = DModelOf(inst)
    /\ Shape3(KeyOf(t)) = <<Len(KeyOf(t)), Len(QueryOf(t)[1]), DModelOf(inst)>>
    /\ Shape3(ValueOf(t)) = Shape3(KeyOf(t))
    /\ \/ MaskOf(t) = None
       \/ /\ AdmissibleMask(t)
          /\ Len(MaskOf(t)[1]) = Len(KeyOf(t))
          /\ Len(MaskOf(t)[1][1]) = Len(QueryOf(t)[1])

\* C1: a forward given a mask passes the entry check exactly when the mask's
\* first dimension is 1 or seq_len_q, and otherwise fails at entry before
\* any projection, score or observer emission
C1_EntryCheckAcceptsExactlyAdmissibleMasks ==
    \A t \in DOMAIN pc :
        (pc[t] \notin {"idle", "entry"} /\ MaskOf(t) # None)
            => (AdmissibleMask(t) <=> ~FailedAtEntry(t))

\* C2: an instance exists only for heads dividing d_model
C2_NoInstanceUnlessHeadsDivideDModel ==
    inst # None => inst.heads * inst.d_k = DModelOf(inst)

\* key position j0 is excluded by the mask for every query position of batch b
ExcludedForAll(mask, j0, b) == \A i \in 1..Len(mask) : mask[i][j0][b] = FALSE

\* the mask admits some key position for query position i of batch b
RowAdmitsSome(mask, i, b) ==
    \E j \in 1..Len(mask[1]) : mask[BIdx(Len(mask), i)][j][b] = TRUE

\* C3 as claimed: a key position the mask excludes for all queries of batch b
\* has post-softmax weight 0 at every (i, j0, b, h), for every mask
C3_ExcludedKeyHasZeroWeight ==
    \A t \in DOMAIN pc :
        (loc[t].debug # None /\ MaskOf(t) # None) =>
            \A j0 \in 1..Len(MaskOf(t)[1]), b \in 1..Len(MaskOf(t)[1][1]) :
                ExcludedForAll(MaskOf(t), j0, b) =>
                    \A i \in 1..Len(loc[t].debug), h \in 1..inst.heads :
                        loc[t].debug[i][j0][b][h][1] = 0

\* C3 amended: a key position the mask excludes for all queries of batch b
\* has post-softmax weight 0 at (i, j0, b, h) for every query position i to
\* which the mask admits at least one key position
C3_ExcludedKeyHasZeroWeightUnlessRowEmpty ==
    \A t \in DOMAIN pc :
        (loc[t].debug # None /\ MaskOf(t) # None) =>
            \A j0 \in 1..Len(MaskOf(t)[1]), b \in 1..Len(MaskOf(t)[1][1]) :
                ExcludedForAll(MaskOf(t), j0, b) =>
                    \A i \in 1..Len(loc[t].debug), h \in 1..inst.heads :
                        RowAdmitsSome(MaskOf(t), i, b) =>
                            loc[t].debug[i][j0][b][h][1] = 0

\* a forward with seq_len_q # seq_len_k whose mask excludes one key position
\* and admits another has been normalised
C3_Witness ==
    \E t \in DOMAIN pc :
        /\ loc[t].debug # None /\ MaskOf(t) # None
        /\ Len(QueryOf(t)) # Len(KeyOf(t))
        /\ \E j0 \in 1..Len(MaskOf(t)[1]), b \in 1..Len(MaskOf(t)[1][1]) :
            /\ ExcludedForAll(MaskOf(t), j0, b)
            /\ RowAdmitsSome(MaskOf(t), 1, b)
            /\ loc[t].debug[1][j0][b][1][1] = 0

\* C4: a forward with consistent shapes, on a well-configured instance,
\* returns a tensor of shape [seq_len_q, batch_size, d_model]
C4_ConsistentShapesReturnOutput ==
    \A t \in DOMAIN pc :
        (Finished(t) /\ WellConfigured /\ ConsistentShapes(t)) =>
            /\ pc[t] = "done"
            /\ Shape3(loc[t].result) =
                <<Len(QueryOf(t)), Len(QueryOf(t)[1]), DModelOf(inst)>>

\* the attention weights over the key positions, at (i, b, h)
WeightsOverKeys(a, i, b, h) == [j \in 1..Len(a[1]) |-> a[i][j][b][h]]

SumsToOneOverKeys(a) ==
    \A i \in 1..Len(a), b \in 1..Len(a[1][1]), h \in 1..Len(a[1][1][1]) :
        RSumSeq(WeightsOverKeys(a, i, b, h)) = <<1, 1>>

\* C5: with dropout disabled and no mask, the attention weights (as emitted
\* and as used and retained) sum to 1 over the key positions for every
\* (i, b, h)
C5_WeightsSumToOneOverKeys ==
    \A t \in DOMAIN pc :
        (loc[t].debug # None /\ MaskOf(t) = None /\ inst.dropout[1] = 0) =>
            /\ SumsToOneOverKeys(loc[t].debug)
            /\ SumsToOneOverKeys(loc[t].attn)
            /\ pc[t] \in {"output", "done"} => SumsToOneOverKeys(attn)

\* a forward without mask and dropout, seq_len_q # seq_len_k, whose weights
\* over the keys are not all equal, has returned
C5_Witness ==
    \E t \in DOMAIN pc :
        /\ pc[t] = "done" /\ MaskOf(t) = None /\ inst.dropout[1] = 0
        /\ Len(QueryOf(t)) # Len(KeyOf(t))
        /\ \E i \in 1..Len(attn), j \in 1..Len(attn[1]) :
            attn[i][j][1][1] # attn[i][1][1][1]
        /\ SumsToOneOverKeys(attn)

\* C7: a forward whose shapes are inconsistent fails, returns nothing, emits
\* nothing to the observer and leaves self.attn as it was (None, under Spec)
C7_InconsistentShapesFailWithoutEffect ==
    \A t \in DOMAIN pc :
        (Finished(t) /\ ~ConsistentShapes(t)) =>
            /\ pc[t] = "failed"
            /\ loc[t].result = None
            /\ loc[t].debug = None
            /\ attn = None

\* the projected value vectors, heads concatenated, through the output layer
OutputOfValues(t) ==
    LET v == loc[t].value
        q == [pos \in 1..Len(v) |-> [b \in 1..Len(v[1]) |-> [h \in 1..Len(v[1][1]) |->
                [d \in 1..Len(v[1][1][1]) |-> <<v[pos][b][h][d], 1>>]]]]
    IN  LinearQ(inst.output, ConcatHeads(q, Len(v), Len(v[1])))

AllWeightsOne(a) ==
    \A i \in 1..Len(a), j \in 1..Len(a[1]), b \in 1..Len(a[1][1]),
       h \in 1..Len(a[1][1][1]) : RNorm(a[i][j][b][h]) = <<1, 1>>

SingleKeyCall(t) ==
    /\ pc[t] # "idle"
    /\ ConsistentShapes(t)
    /\ Len(QueryOf(t)) = 1 /\ Len(KeyOf(t)) = 1

\* C8 as claimed: with seq_len_q = seq_len_k = 1 every attention weight is 1
\* and the output is the output layer applied to the projected value
C8_SingleKeyWeightIsOne ==
    \A t \in DOMAIN pc :
        SingleKeyCall(t) =>
            /\ pc[t] \in {"store", "output", "done"} => AllWeightsOne(loc[t].attn)
            /\ pc[t] = "done" => loc[t].result = OutputOfValues(t)

\* C8 amended: the same, with dropout disabled
C8_SingleKeyWeightIsOneWithoutDropout ==
    \A t \in DOMAIN pc :
        (SingleKeyCall(t) /\ inst.dropout[1] = 0) =>
            /\ pc[t] \in {"store", "output", "done"} => AllWeightsOne(loc[t].attn)
            /\ pc[t] = "done" => loc[t].result = OutputOfValues(t)

\* a single-key forward on a batch of two, with a mask that admits nothing
\* and dropout disabled, has returned the transformed value
C8_Witness ==
    \E t \in DOMAIN pc :
        /\ SingleKeyCall(t) /\ inst.dropout[1] = 0 /\ pc[t] = "done"
        /\ Len(QueryOf(t)[1]) = 2
        /\ MaskOf(t) # None /\ MaskOf(t)[1][1][1] = FALSE
        /\ AllWeightsOne(attn)
        /\ loc[t].result = OutputOfValues(t)

(***************************************************************************)
(* SpecConc: two callers run forward computations on one constructed       *)
(* instance, again and again, their steps interleaved                      *)
(***************************************************************************)
Callers == {1, 2}

\* query, key and value of one length, batch size 1, no mask; and one call
\* whose mask [MaxSeq, 1, 1] fails the entry check
ConcArgs(d_model) ==
    {Arguments(InputTensor(seed, L, 1, d_model), InputTensor(seed + 1, L, 1, d_model),
               InputTensor(seed + 2, L, 1, d_model), None) :
        seed \in Seeds, L \in Seqs} \cup
    {Arguments(InputTensor(0, 1, 1, d_model), InputTensor(1, 1, 1, d_model),
               InputTensor(2, 1, 1, d_model), MaskTensor(0, MaxSeq, 1, 1))}

\* the state after MultiHeadAttention(heads=1, d_model=2, dropout_prob=p)
InitConc ==
    /\ inst \in {NewInstance(1, 2, p, TRUE) : p \in DropoutProbs}
    /\ raised = "none"
    /\ attn = None
    /\ pc = [t \in Callers |-> "idle"]
    /\ loc = [t \in Callers |-> NoLocals]
    /\ rt = None

ForwardConc(t) ==
    /\ pc[t] = "idle"
    /\ \E args \in ConcArgs(DModelOf(inst)) : Begin(t, args)

NextConc ==
    \E t \in Callers :
        \/ ForwardConc(t)
        \/ Step(t)

SpecConc == InitConc /\ [][NextConc]_vars

\* caller t executes line 169
Stores(t) == pc[t] = "store" /\ pc'[t] = "output"

\* C6: self.attn is None before the first forward; it changes only when a
\* forward executes line 169, and then to that forward's post-softmax,
\* post-dropout weights
C6_RetainedIsLastStoredWeights ==
    /\ attn = None
    /\ [][attn' # attn =>
            \E t \in DOMAIN pc :
                /\ Stores(t)
                /\ attn' = loc[t].attn
                /\ \E keep \in DropoutDraws(loc[t].debug, inst.dropout) :
                    attn' = Dropout(loc[t].debug, keep, inst.dropout)]_vars
    /\ [][\A t \in DOMAIN pc : Stores(t) => attn' = loc[t].attn]_vars

\* one caller has returned, and the other's later forward, with dropout,
\* has replaced the weights the first one retained
C6_Witness ==
    \E t \in DOMAIN pc, u \in DOMAIN pc :
        /\ t # u /\ inst.dropout[1] # 0
        /\ pc[t] = "done" /\ pc[u] = "output"
        /\ attn = loc[u].attn /\ attn # loc[t].attn /\ attn # loc[u].debug

\* the value x, evaluated once (TLC otherwise recomputes an element of a
\* function expression at each use)
Evaluated(x) == IF x = x THEN x ELSE x

\* the output __call__ computes from its arguments and the weights, with
\* dropout disabled
ForwardOf(args) ==
    LET q == Evaluated(Prepare(inst.query, args.query))
        k == Evaluated(Prepare(inst.key, args.key))
        v == Evaluated(Prepare(inst.value, args.value))
        scores == Evaluated(ScaleScores(GetScores(q, k), inst.scale))
        filled == IF args.mask = None THEN scores
                  ELSE Evaluated(MaskedFill(scores, Unsqueeze(args.mask)))
        a == Evaluated(Softmax(filled))
        kept == Evaluated(Dropout(a, AllKept(a), inst.dropout))
        x == Evaluated(Aggregate(kept, v))
        c == Evaluated(ConcatHeads(x, Len(args.query), Len(args.query[1])))
    IN  LinearQ(inst.output, c)

\* C10: with dropout disabled, under every interleaving, a forward returns
\* the output its own arguments and the weights determine, forwards with
\* equal arguments return equal outputs, and no step changes the instance's
\* weights or a running forward's arguments
C10_ForwardDependsOnOwnInputsOnly ==
    /\ [](inst.dropout[1] = 0 =>
            /\ \A t \in DOMAIN pc :
                pc[t] = "done" => loc[t].result = ForwardOf(loc[t].args)
            /\ \A t \in DOMAIN pc, u \in DOMAIN pc :
                (pc[t] = "done" /\ pc[u] = "done" /\ loc[t].args = loc[u].args)
                    => loc[t].result = loc[u].result)
    /\ [][inst' = inst]_vars
    /\ [][\A t \in DOMAIN pc :
            (pc[t] # "idle" /\ pc'[t] # "idle") => loc'[t].args = loc[t].args]_vars

\* both callers have returned, from different arguments of one shape, with
\* different outputs, the instance retaining the weights of one of them
C10_Witness ==
    /\ inst.dropout[1] = 0
    /\ pc[1] = "done" /\ pc[2] = "done"
    /\ Shape3(loc[1].args.query) = Shape3(loc[2].args.query)
    /\ loc[1].attn # loc[2].attn
    /\ attn = loc[1].attn
    /\ loc[1].result # loc[2].result
    /\ loc[2].result = ForwardOf(loc[2].args)

(***************************************************************************)
(* SpecReshape: the head split followed by the head concatenation, on      *)
(* every 0/1 vector of every width heads * d_k                             *)
(***************************************************************************)
InitReshape ==
    /\ inst = None
    /\ raised = "none"
    /\ attn = None
    /\ pc = [t \in SoleCaller |-> "idle"]
    /\ loc = [t \in SoleCaller |-> NoLocals]
    /\ rt \in UNION {{[heads |-> h, d_k |-> d, vec |-> v,
                         split |-> None, merged |-> None] :
                            v \in [1..(h * d) -> {0, 1}]} :
                       h \in HeadCounts, d \in DModels}

\* the split of PrepareForMultiHeadAttention.__call__ on the [1, 1, W] tensor
SplitVector ==
    /\ rt.split = None
    /\ rt' = [rt EXCEPT !.split = SplitHeads(<<<<rt.vec>>>>, 1, 1, rt.heads, rt.d_k)]
    /\ UNCHANGED <<inst, raised, attn, pc, loc>>

\* the concatenation of line 172 on the split tensor
MergeHeads ==
    /\ rt.split # None
    /\ rt.merged = None
    /\ rt' = [rt EXCEPT !.merged = ConcatHeads(rt.split, 1, 1)[1][1]]
    /\ UNCHANGED <<inst, raised, attn, pc, loc>>

NextReshape ==
    \/ SplitVector
    \/ MergeHeads

SpecReshape == InitReshape /\ [][NextReshape]_vars

\* C9: the split puts the element at flat index h * d_k + d at head h,
\* feature d, and the concatenation of the split is the original vector
C9_SplitThenConcatIsIdentity ==
    /\ rt.split # None =>
        \A h \in 1..rt.heads, d \in 1..rt.d_k :
            rt.split[1][1][h][d] = rt.vec[(h - 1) * rt.d_k + d]
    /\ rt.merged # None => rt.merged = rt.vec

\* a vector of two or more heads of two or more features, not symmetric
\* under exchanging the two indices, has made the round trip
C9_Witness ==
    /\ rt.merged # None /\ rt.merged = rt.vec
    /\ rt.heads >= 2 /\ rt.d_k >= 2
    /\ rt.vec[2] # rt.vec[rt.heads + 1]

====
